---- MODULE Spec2Model ----
(***************************************************************************)
(* Tool lifecycle and assignment workflow of ToolTrak.                     *)
(*                                                                         *)
(* The persisted tables (tools, tool_assignments, tool_event_log,          *)
(* tool_requests) are the shared state.  Every handler of the React        *)
(* components is one action: it takes the row it acts on from a list the   *)
(* component loaded earlier, performs its Supabase writes in the order of  *)
(* the code, and reloads its list.  A write can fail (the code tests the   *)
(* returned error after every call); the writes made before the failing    *)
(* one stay, because no handler runs inside a transaction.                 *)
(*                                                                         *)
(* One browser session is tracked with the list it has on screen (view);   *)
(* every other session acts on a list it has just loaded.                  *)
(*                                                                         *)
(* The row-level policies let an administrator update every row and a      *)
(* user the assignments whose assigned_to is that user; the lists a user   *)
(* is shown hold no other rows, so no update of a handler is refused.      *)
(* The schema has no trigger and no unique index on the open assignments   *)
(* of a tool.                                                              *)
(***************************************************************************)
EXTENDS Integers, Sequences, FiniteSets, TLC

\* ------------------------------------------------------------------ bounds
MaxAssignments == 1
MaxSubmits == 2
MaxEvents == 2
MaxRequests == 1
MaxTime == 2
MaxDay == 6
MaxLoans == 1
MaxCharges == 2
MaxStamp == 2

\* ------------------------------------------------------------- the domain
NULL == "null"
NoTime == 0

Tools == {"t1"}
People == {"p1"}
Locations == {"W", "L1"}
BaseWarehouses == {"W"}
Admins == {"a1", "a2"}
Workers == {"u1"}
Users == Admins \cup Workers

Statuses == {"available", "in_use", "maintenance", "retired", "damaged", "lost"}
Conditions == {"good", "maintenance", "damaged", "lost"}
ReturnStatuses == {"active", "pending_return", "returned"}
RequestStatuses == {"pending", "approved", "rejected", "fulfilled"}

\* user_locations: the locations a non-administrator is authorized for, as
\* the pages read them for the signed-in user.  No handler modelled here
\* writes the table.  loadAssignments filters it on the column user_id of the
\* table as first created; the later migration keys the table by person, and
\* against that table the query returns an error and the list of authorized
\* locations stays empty, so that no Return button is shown to a user at all.
UserLocations == {<<"u1", "L1">>}
\* people.user_id: the person record linked to a login
PersonOf(u) == IF u = "u1" THEN "p1" ELSE NULL

VARIABLES tools, assignments, events, requests, now, view

vars == <<tools, assignments, events, requests, now, view>>
db == <<tools, assignments, events, requests>>

\* ------------------------------------------------------------------- rows
\* A row of a loaded list: the columns of the record the handlers read.
Row(id, tool, status, loc, person, cond, at) ==
  [id |-> id, tool |-> tool, status |-> status, loc |-> loc,
   person |-> person, cond |-> cond, at |-> at]

ToolRow(t) == Row(0, t, NULL, NULL, NULL, NULL, NULL)

\* tool_assignments rows with returned_at null
OpenAssignments(as, t) ==
  {i \in DOMAIN as : as[i].tool_id = t /\ as[i].returned_at = NoTime}

\* toolAssignmentMap of loadLocations / loadTools: the location of an open
\* assignment of the tool.  The query has no ORDER BY, so with several open
\* assignments any of them can be the one that stays in the map.
AssignedLocations(as, t) ==
  {as[i].location_id : i \in {j \in OpenAssignments(as, t) : as[j].location_id # NULL}}

\* loadAssignments, view = 'active' | 'pending'
AssignmentRows(u, rs, as) ==
  {Row(i, as[i].tool_id, NULL, as[i].location_id, NULL, as[i].return_condition, NULL) :
     i \in {j \in DOMAIN as :
              /\ as[j].returned_at = NoTime
              /\ as[j].return_status = rs
              /\ (u \in Admins \/ as[j].assigned_to = u)}}

\* AssignmentForm.loadData: tools whose status is available
FormRows(tl) == {ToolRow(t) : t \in {x \in DOMAIN tl : tl[x].status = "available"}}

\* loadMaintenanceTools
MaintenanceRows(tl) == {ToolRow(t) : t \in {x \in DOMAIN tl : tl[x].status = "maintenance"}}

\* Dashboard.loadData: myTools
DashboardRows(u, tl) ==
  IF PersonOf(u) = NULL THEN {}
  ELSE {ToolRow(t) : t \in {x \in DOMAIN tl : tl[x].person_id = PersonOf(u)}}

\* ToolsManager.loadTools: the tool with its displayed location
ToolsRowSets(tl, as) ==
  LET shown(t) == IF AssignedLocations(as, t) # {} THEN AssignedLocations(as, t)
                  ELSE {tl[t].location_id}
      choices == [DOMAIN tl -> Locations \cup {NULL}]
  IN  {{Row(0, t, tl[t].status, tl[t].location_id, tl[t].person_id, NULL, c[t]) : t \in DOMAIN tl} :
         c \in {d \in choices : \A t \in DOMAIN tl : d[t] \in shown(t)}}

\* LocationsManager.loadLocations: the tools listed under each location
LocationsRowSets(tl, as) ==
  LET shown(t) == IF AssignedLocations(as, t) # {} THEN AssignedLocations(as, t)
                  ELSE IF OpenAssignments(as, t) = {} THEN {tl[t].location_id}
                  ELSE {NULL}
      choices == [DOMAIN tl -> Locations \cup {NULL}]
  IN  {{Row(0, t, NULL, NULL, NULL, NULL, c[t]) : t \in {x \in DOMAIN tl : c[x] # NULL}} :
         c \in {d \in choices : \A t \in DOMAIN tl : d[t] \in shown(t)}}

\* loadRequests
RequestRows(rq) ==
  {Row(i, rq[i].tool_id, rq[i].status, rq[i].destination_location_id, rq[i].user_id, NULL, NULL) :
     i \in {j \in DOMAIN rq : rq[j].status # "deleted"}}

Pages == {"active", "pending", "assignForm", "maintenance", "dashboard",
          "tools", "locations", "requests"}

\* the lists a page can show for user u in the database state (tl, as, rq)
RowSets(u, p, tl, as, rq) ==
  CASE p = "active" -> {AssignmentRows(u, "active", as)}
    [] p = "pending" -> {AssignmentRows(u, "pending_return", as)}
    [] p = "assignForm" -> {FormRows(tl)}
    [] p = "maintenance" -> {MaintenanceRows(tl)}
    [] p = "dashboard" -> {DashboardRows(u, tl)}
    [] p = "tools" -> ToolsRowSets(tl, as)
    [] p = "locations" -> LocationsRowSets(tl, as)
    [] p = "requests" -> {RequestRows(rq)}
    [] OTHER -> {{}}

\* the rows user u can click on page p: those of the tracked session's list
\* (stale) or those of a list loaded now
Seen(u, p, stale) ==
  IF stale
  THEN IF view.user = u /\ view.page = p THEN view.rows ELSE {}
  ELSE UNION RowSets(u, p, tools, assignments, requests)

\* the reload at the end of a handler: the tracked session shows page p again
\* with the rows of the new database state; other sessions are not tracked
Reload(u, p, stale) ==
  IF stale
  THEN \E rs \in RowSets(u, p, tools', assignments', requests') :
         view' = [user |-> u, page |-> p, rows |-> rs]
  ELSE UNCHANGED view

\* ------------------------------------------------------------------- Init
NewTool == [status |-> "available", location_id |-> NULL, person_id |-> NULL]

Init ==
  /\ tools = [t \in Tools |-> NewTool]
  /\ assignments = <<>>
  /\ events = <<>>
  /\ requests = <<>>
  /\ now = 1
  /\ view = [user |-> "a1", page |-> "none", rows |-> {}]

\* the session navigates to a page and loads its list
Load(u, p) ==
  /\ p \in {"assignForm", "maintenance", "tools", "locations", "pending"} => u \in Admins
  /\ \E rs \in RowSets(u, p, tools, assignments, requests) :
       view' = [user |-> u, page |-> p, rows |-> rs]
  /\ UNCHANGED <<db, now>>

\* new Date() / now(): time passes
Tick ==
  /\ now < MaxTime
  /\ now' = now + 1
  /\ UNCHANGED <<db, view>>

\* ------------------------------------------------------ Assignment Ledger
\* the custody targets the assignment form can submit (person | location |
\* user with location); every select of the form is required
Targets ==
  {[person_id |-> p, location_id |-> NULL, assigned_to |-> NULL] : p \in People}
  \cup {[person_id |-> NULL, location_id |-> l, assigned_to |-> NULL] : l \in Locations \ BaseWarehouses}
  \cup {[person_id |-> NULL, location_id |-> l, assigned_to |-> w] : l \in Locations, w \in Workers}

\* the row inserted by AssignmentForm.handleSubmit; the columns it does not
\* name take the defaults of the schema
NewAssignment(t, target) ==
  [tool_id |-> t,
   person_id |-> target.person_id,
   location_id |-> target.location_id,
   assigned_to |-> target.assigned_to,
   assigned_at |-> now,
   returned_at |-> NoTime,
   return_condition |-> "good",
   return_notes |-> NULL,
   return_location_id |-> NULL,
   return_status |-> "active",
   return_requested_at |-> NoTime,
   return_approved_by |-> NULL,
   return_approved_at |-> NoTime]

Event(t, type, from, to, toPerson, old, new, u) ==
  [tool_id |-> t, event_type |-> type, from_location_id |-> from,
   to_location_id |-> to, to_person_id |-> toPerson,
   old_status |-> old, new_status |-> new, user_id |-> u]

\* AssignmentForm.handleSubmit.  fail names the write that returns an error:
\* "tool" (the status update; the handler throws and the form stays open) or
\* "event" (the log insert, whose result is not looked at)
createAssignment(u, stale, t, target, fail) ==
  /\ UNCHANGED <<requests, now>>
  /\ u \in Admins
  /\ ToolRow(t) \in Seen(u, "assignForm", stale)
  /\ LET tool == tools[t] IN
     /\ assignments' = Append(assignments, NewAssignment(t, target))
     /\ IF fail = "tool"
        THEN UNCHANGED <<tools, events, view>>
        ELSE /\ tools' = [tools EXCEPT ![t].status = "in_use"]
             /\ IF fail = "event"
                THEN UNCHANGED events
                ELSE events' = Append(events,
                       Event(t, "assigned", tool.location_id, target.location_id,
                             target.person_id, tool.status, "in_use", u))
             /\ Reload(u, "active", stale)

\* --------------------------------------------------------- Return Workflow
\* let newStatus = 'available'; if (condition === ...) newStatus = ...
NewStatus(condition) ==
  IF condition = "maintenance" THEN "maintenance"
  ELSE IF condition = "damaged" THEN "damaged"
  ELSE IF condition = "lost" THEN "lost"
  ELSE "available"

\* returnNotes || null
OrNull(x) == IF x = "" THEN NULL ELSE x

\* A dialog whose notes textarea is not required.
FormUnchecked(in) == TRUE

\* the required attributes of the return dialog: the notes textarea is shown,
\* and required, unless the condition is good
FormValid(in) == in.condition # "good" => in.returnNotes # ""

\* what the return dialogs can submit; the location select is preset to the
\* base warehouse and holds a location also when it is hidden (lost)
ReturnInputs ==
  {in \in [condition : Conditions, returnLocationId : Locations,
           returnNotes : {"", "note"}] : FormValid(in)}

\* The selected return location, whatever the condition.
ReturnLocationAsSubmitted(in) == OrNull(in.returnLocationId)

\* condition === 'lost' ? null : returnLocationId || null
ReturnLocation(in) ==
  IF in.condition = "lost" THEN NULL ELSE OrNull(in.returnLocationId)

\* the columns written by the updates of tool_assignments
AdminReturnColumns(u, in) ==
  [returned_at |-> now,
   return_location_id |-> ReturnLocation(in),
   return_condition |-> in.condition,
   return_notes |-> OrNull(in.returnNotes),
   return_status |-> "returned",
   return_approved_by |-> u,
   return_approved_at |-> now]

\* A request that writes the notes column only when notes were entered.
RequestColumnsNotesIfAny(in) ==
  IF in.returnNotes = ""
    THEN [return_status |-> "pending_return", return_requested_at |-> now,
          return_location_id |-> ReturnLocation(in),
          return_condition |-> in.condition]
    ELSE [return_status |-> "pending_return", return_requested_at |-> now,
          return_location_id |-> ReturnLocation(in),
          return_condition |-> in.condition,
          return_notes |-> in.returnNotes]

\* a request that stamps the return as the administrator's branch does
RequestColumnsStamped(in) ==
  [return_status |-> "pending_return",
   return_requested_at |-> now,
   returned_at |-> now,
   return_location_id |-> ReturnLocation(in),
   return_condition |-> in.condition,
   return_notes |-> OrNull(in.returnNotes)]

RequestColumns(in) ==
  [return_status |-> "pending_return",
   return_requested_at |-> now,
   return_location_id |-> ReturnLocation(in),
   return_condition |-> in.condition,
   return_notes |-> OrNull(in.returnNotes)]

ApproveColumns(u) ==
  [returned_at |-> now,
   return_status |-> "returned",
   return_approved_by |-> u,
   return_approved_at |-> now]

\* A reject that clears the request but keeps the notes written by the holder.
RejectColumnsKeepNotes ==
  [return_status |-> "active", return_requested_at |-> NoTime,
   return_location_id |-> NULL, return_condition |-> NULL]

RejectColumns ==
  [return_status |-> "active",
   return_requested_at |-> NoTime,
   return_location_id |-> NULL,
   return_condition |-> NULL,
   return_notes |-> NULL]

\* A list that offers Return on every row it shows.
canReturnAnyRow(u, row) == TRUE

canReturnTool(u, row) ==
  \/ u \in Admins
  \/ /\ row.loc # NULL
     /\ <<u, row.loc>> \in UserLocations

\* .update({...}).eq('id', id) on tool_assignments
UpdateAssignment(id, columns) ==
  [i \in DOMAIN assignments |->
     IF i = id
     THEN [k \in DOMAIN assignments[i] |->
             IF k \in DOMAIN columns THEN columns[k] ELSE assignments[i][k]]
     ELSE assignments[i]]

\* ReturnDialog.handleReturn, isAdmin branch
adminReturn(u, stale, row, in, fail) ==
  /\ UNCHANGED <<requests, now>>
  /\ u \in Admins
  /\ row \in Seen(u, "active", stale)
  /\ canReturnTool(u, row)
  /\ LET tool == tools[row.tool]
         newStatus == NewStatus(in.condition)
     IN
     /\ assignments' = UpdateAssignment(row.id, AdminReturnColumns(u, in))
     /\ IF fail = "tool"
        THEN UNCHANGED <<tools, events, view>>
        ELSE /\ tools' = [tools EXCEPT ![row.tool].status = newStatus]
             /\ IF fail = "event"
                THEN UNCHANGED events
                ELSE events' = Append(events,
                       Event(row.tool, "returned", row.loc, in.returnLocationId,
                             NULL, tool.status, newStatus, u))
             /\ Reload(u, "active", stale)

\* ReturnDialog.handleReturn, non-administrator branch
requestReturn(u, stale, row, in) ==
  /\ UNCHANGED <<tools, events, requests, now>>
  /\ u \notin Admins
  /\ row \in Seen(u, "active", stale)
  /\ canReturnTool(u, row)
  /\ assignments' = UpdateAssignment(row.id, RequestColumns(in))
  /\ Reload(u, "active", stale)

approveReturn(u, stale, row, fail) ==
  /\ UNCHANGED <<events, requests, now>>
  /\ u \in Admins
  /\ row \in Seen(u, "pending", stale)
  /\ assignments' = UpdateAssignment(row.id, ApproveColumns(u))
  /\ IF fail = "tool"
     THEN UNCHANGED <<tools, view>>
     ELSE /\ tools' = [tools EXCEPT ![row.tool].status = NewStatus(row.cond)]
          /\ Reload(u, "pending", stale)

rejectReturn(u, stale, row) ==
  /\ UNCHANGED <<tools, events, requests, now>>
  /\ u \in Admins
  /\ row \in Seen(u, "pending", stale)
  /\ assignments' = UpdateAssignment(row.id, RejectColumns)
  /\ Reload(u, "pending", stale)

\* ----------------------------------------------------------- Tool Registry
\* Dashboard.handleReturnTool ("return my tool")
handleReturnTool(u, stale, t) ==
  /\ UNCHANGED <<assignments, events, requests, now>>
  /\ ToolRow(t) \in Seen(u, "dashboard", stale)
  /\ tools' = [tools EXCEPT ![t].person_id = NULL, ![t].status = "available"]
  /\ Reload(u, "dashboard", stale)

\* MaintenanceModal.returnToService
returnToService(u, stale, t) ==
  /\ UNCHANGED <<assignments, events, requests, now>>
  /\ u \in Admins
  /\ ToolRow(t) \in Seen(u, "maintenance", stale)
  /\ tools' = [tools EXCEPT ![t].status = "available"]
  /\ Reload(u, "maintenance", stale)

\* what ToolForm leaves in formData.location_id / person_id: the values of
\* the loaded tool, or those set through handleLocationTypeChange and the
\* select shown for the chosen type
FormCustody(row) ==
  {[location_id |-> row.loc, person_id |-> row.person],
   [location_id |-> NULL, person_id |-> NULL]}
  \cup {[location_id |-> l, person_id |-> NULL] : l \in Locations}
  \cup {[location_id |-> NULL, person_id |-> p] : p \in People}

\* ToolForm.handleSubmit on an existing tool: update(formData)
editTool(u, stale, row, status, custody) ==
  /\ UNCHANGED <<assignments, events, requests, now>>
  /\ u \in Admins
  /\ row \in Seen(u, "tools", stale)
  /\ custody \in FormCustody(row)
  /\ tools' = [tools EXCEPT ![row.tool] =
                 [status |-> status,
                  location_id |-> custody.location_id,
                  person_id |-> custody.person_id]]
  /\ Reload(u, "tools", stale)

\* ToolsManager.assignToWarehouse; the button is shown for an available tool
\* that is displayed without a location
assignToWarehouse(u, stale, row, w) ==
  /\ UNCHANGED <<assignments, events, requests, now>>
  /\ u \in Admins
  /\ row \in Seen(u, "tools", stale)
  /\ row.status = "available"
  /\ row.at = NULL
  /\ w \in BaseWarehouses
  /\ tools' = [tools EXCEPT ![row.tool].location_id = w]
  /\ Reload(u, "tools", stale)

\* ToolsManager.deleteTool.  tool_assignments.tool_id and
\* tool_event_log.tool_id reference tools(id) ON DELETE CASCADE,
\* tool_requests.tool_id references it ON DELETE SET NULL
deleteTool(u, stale, row) ==
  /\ UNCHANGED now
  /\ u \in Admins
  /\ row \in Seen(u, "tools", stale)
  /\ LET others(r) == r.tool_id # row.tool IN
     /\ tools' = [t \in DOMAIN tools \ {row.tool} |-> tools[t]]
     /\ assignments' = SelectSeq(assignments, others)
     /\ events' = SelectSeq(events, others)
     /\ requests' = [i \in DOMAIN requests |->
                       IF others(requests[i]) THEN requests[i]
                       ELSE [requests[i] EXCEPT !.tool_id = NULL]]
  /\ Reload(u, "tools", stale)

\* ReturnToolDialog.handleReturn of the Locations page
locationReturn(u, stale, row, in, fail) ==
  /\ UNCHANGED <<assignments, requests, now>>
  /\ u \in Admins
  /\ row \in Seen(u, "locations", stale)
  /\ LET tool == tools[row.tool]
         newStatus == NewStatus(in.condition)
         targetLocationId == IF in.condition = "lost" THEN NULL ELSE in.returnLocationId
     IN
     /\ tools' = [tools EXCEPT ![row.tool] =
                    [status |-> newStatus,
                     location_id |-> targetLocationId,
                     person_id |-> NULL]]
     /\ IF fail = "event"
        THEN UNCHANGED events
        ELSE events' = Append(events,
               Event(row.tool, "returned", row.at, targetLocationId, NULL,
                     tool.status, newStatus, u))
  /\ Reload(u, "locations", stale)

\* LocationsManager.returnToolToWarehouse; the button is shown under a
\* location that is not a base warehouse
returnToolToWarehouse(u, stale, row, w, fail) ==
  /\ UNCHANGED <<assignments, requests, now>>
  /\ u \in Admins
  /\ row \in Seen(u, "locations", stale)
  /\ row.at \notin BaseWarehouses
  /\ w \in BaseWarehouses
  /\ LET tool == tools[row.tool] IN
     /\ tools' = [tools EXCEPT ![row.tool].location_id = w,
                               ![row.tool].status = "available"]
     /\ IF fail = "event"
        THEN UNCHANGED events
        ELSE events' = Append(events,
               Event(row.tool, "returned", row.at, w, NULL,
                     tool.status, "available", u))
  /\ Reload(u, "locations", stale)

\* ----------------------------------------------------------- Request Queue
\* RequestForm.handleSubmit: the destination is one of the requester's
\* authorized locations; tool = NULL is a request for a new tool
createRequest(u, t, dest) ==
  /\ <<u, dest>> \in UserLocations
  /\ requests' = Append(requests,
       [user_id |-> u,
        request_type |-> IF t = NULL THEN "new" ELSE "existing",
        tool_id |-> t,
        destination_location_id |-> dest,
        status |-> "pending"])
  /\ UNCHANGED <<tools, assignments, events, now, view>>

\* the buttons rendered for a loaded request
RequestButtons(row) ==
  IF row.status = "pending" THEN {"approved", "rejected"}
  ELSE IF row.status = "approved" THEN {"fulfilled"}
  ELSE {}

\* A fulfilment that also makes the tool available.
RelocatedAvailable(t, l) ==
  [tools EXCEPT ![t].location_id = l, ![t].status = "available"]

\* tools.update({ location_id: request.destination_location_id })
Relocated(t, l) == [tools EXCEPT ![t].location_id = l]

\* ToolRequestsManager.updateRequestStatus; fail = "request": the update of
\* the request returns an error after the tool was moved
updateRequestStatus(u, stale, row, status, fail) ==
  /\ UNCHANGED <<assignments, events, now>>
  /\ u \in Admins
  /\ row \in Seen(u, "requests", stale)
  /\ status \in RequestButtons(row)
  /\ IF status = "fulfilled" /\ row.tool # NULL /\ row.loc # NULL
     THEN tools' = Relocated(row.tool, row.loc)
     ELSE UNCHANGED tools
  /\ IF fail = "request"
     THEN /\ status = "fulfilled"
          /\ UNCHANGED <<requests, view>>
     ELSE /\ requests' = [i \in DOMAIN requests |->
                            IF i = row.id /\ requests[i].status # "deleted"
                            THEN [requests[i] EXCEPT !.status = status]
                            ELSE requests[i]]
          /\ Reload(u, "requests", stale)

\* ToolRequestsManager.cancelRequest; the delete policy of tool_requests lets
\* through only the owner's own pending request
cancelRequest(u, stale, row) ==
  /\ UNCHANGED <<tools, assignments, events, now>>
  /\ row \in Seen(u, "requests", stale)
  /\ row.person = u
  /\ row.status = "pending"
  /\ requests' = [i \in DOMAIN requests |->
                    IF i = row.id /\ requests[i].user_id = u /\ requests[i].status = "pending"
                    THEN [requests[i] EXCEPT !.status = "deleted"]
                    ELSE requests[i]]
  /\ Reload(u, "requests", stale)

\* ------------------------------------------------------------------- Next
\* the sessions: the tracked session of administrator a1 or of worker u1 acts
\* on the list it has on screen; administrator a2 and worker u1 on another
\* device act on a list loaded now
Clients ==
  {[user |-> "a1", stale |-> TRUE], [user |-> "a2", stale |-> FALSE],
   [user |-> "u1", stale |-> TRUE], [user |-> "u1", stale |-> FALSE]}

Tracked == {"a1", "u1"}

WorkflowPages == {"active", "pending", "assignForm"}

RowsOn(pages) == UNION {Seen(c.user, p, c.stale) : c \in Clients, p \in pages}

\* room in the bounded tables
RoomA == Len(assignments) < MaxAssignments
RoomE(fail) == fail = "none" => Len(events) < MaxEvents

\* the assignment ledger and the return workflow (AssignmentsManager), with
\* the writes that can return an error drawn from faults
Workflow(faults) ==
  \/ \E u \in Tracked, p \in WorkflowPages : Load(u, p)
  \/ Tick
  \/ \E c \in Clients, t \in Tools, g \in Targets, f \in faults :
       RoomA /\ RoomE(f) /\ createAssignment(c.user, c.stale, t, g, f)
  \/ \E c \in Clients, r \in RowsOn({"active"}), in \in ReturnInputs, f \in faults :
       RoomE(f) /\ adminReturn(c.user, c.stale, r, in, f)
  \/ \E c \in Clients, r \in RowsOn({"active"}), in \in ReturnInputs :
       requestReturn(c.user, c.stale, r, in)
  \/ \E c \in Clients, r \in RowsOn({"pending"}), f \in faults \ {"event"} :
       approveReturn(c.user, c.stale, r, f)
  \/ \E c \in Clients, r \in RowsOn({"pending"}) : rejectReturn(c.user, c.stale, r)

\* every write succeeds
Next == Workflow({"none"})

Spec == Init /\ [][Next]_vars

\* a write can return an error
NextFaults == Workflow({"none", "tool", "event"})

SpecFaults == Init /\ [][NextFaults]_vars

\* the assignment form alone: administrators submitting it, the tracked one
\* from a form that can have been loaded before the other's submit
RoomS == Len(assignments) < MaxSubmits

NextLedger ==
  \/ Load("a1", "assignForm")
  \/ Tick
  \/ \E c \in Clients, t \in Tools, g \in Targets :
       RoomS /\ RoomE("none") /\ createAssignment(c.user, c.stale, t, g, "none")

SpecLedger == Init /\ [][NextLedger]_vars

\* the Locations page next to the assignment form: tools placed at a location
\* by an assignment and taken back from the list of that location
NextCustody ==
  \/ Load("a1", "locations")
  \/ \E c \in Clients, t \in Tools, g \in Targets :
       RoomA /\ RoomE("none") /\ createAssignment(c.user, FALSE, t, g, "none")
  \/ \E c \in Clients, r \in RowsOn({"locations"}), in \in ReturnInputs, f \in {"none", "event"} :
       RoomE(f) /\ locationReturn(c.user, c.stale, r, in, f)
  \/ \E c \in Clients, r \in RowsOn({"locations"}), w \in BaseWarehouses, f \in {"none", "event"} :
       RoomE(f) /\ returnToolToWarehouse(c.user, c.stale, r, w, f)

SpecCustody == Init /\ [][NextCustody]_vars

\* the tool registry and the request queue: the handlers of the Tools page,
\* the maintenance list, the dashboard and the requests page
RegistryPages == {"tools", "maintenance", "dashboard", "requests"}

RoomR == Len(requests) < MaxRequests

NextRegistry ==
  \/ \E u \in Tracked, p \in RegistryPages : Load(u, p)
  \/ \E c \in Clients, t \in Tools : handleReturnTool(c.user, c.stale, t)
  \/ \E c \in Clients, t \in Tools : returnToService(c.user, c.stale, t)
  \/ \E c \in Clients, r \in RowsOn({"tools"}), s \in Statuses :
       \E g \in FormCustody(r) : editTool(c.user, c.stale, r, s, g)
  \/ \E c \in Clients, r \in RowsOn({"tools"}), w \in BaseWarehouses :
       assignToWarehouse(c.user, c.stale, r, w)
  \/ \E u \in Workers, t \in Tools \cup {NULL}, l \in Locations :
       RoomR /\ createRequest(u, t, l)
  \/ \E c \in Clients, r \in RowsOn({"requests"}), s \in RequestStatuses, f \in {"none", "request"} :
       updateRequestStatus(c.user, c.stale, r, s, f)
  \/ \E c \in Clients, r \in RowsOn({"requests"}) : cancelRequest(c.user, c.stale, r)

SpecRegistry == Init /\ [][NextRegistry]_vars

\* the event log over the life of a tool: assigned, returned by an
\* administrator, and deleted from the Tools page
NextEventLog ==
  \/ Load("a1", "tools")
  \/ Tick
  \/ \E t \in Tools, g \in Targets :
       RoomA /\ RoomE("none") /\ createAssignment("a2", FALSE, t, g, "none")
  \/ \E r \in RowsOn({"active"}), in \in ReturnInputs :
       RoomE("none") /\ adminReturn("a2", FALSE, r, in, "none")
  \/ \E c \in Clients, r \in RowsOn({"tools"}) : deleteTool(c.user, c.stale, r)

SpecEventLog == Init /\ [][NextEventLog]_vars

\* ---------------------------------------------------------------- Analytics
\* Math.round(n / d) for n >= 0 and d > 0
Round(n, d) == (2 * n + d) \div (2 * d)

\* loadTools, usage statistics of one tool.  Time is counted in steps of a
\* fixed number of days; as is the list of the tool's assignments, today the
\* value of new Date()
total_usage_days(as, today) ==
  LET daysInUse(a) ==
        (IF a.returned_at # NoTime THEN a.returned_at ELSE today) - a.assigned_at
      sum[n \in 0..Len(as)] == IF n = 0 THEN 0 ELSE sum[n - 1] + daysInUse(as[n])
  IN  sum[Len(as)]

totalDaysInInventory(tool, today) ==
  today - (IF tool.purchase_date # NoTime THEN tool.purchase_date ELSE tool.created_at)

usage_percentage(tool, as, today) ==
  IF Len(as) > 0 /\ totalDaysInInventory(tool, today) > 0
  THEN Round(total_usage_days(as, today) * 100, totalDaysInInventory(tool, today))
  ELSE 0

\* the usage block of a tool card: the text "N% utilization" and the width
\* of the bar, rendered when total_usage_days > 0
UsageRow(t, tool, as, today) ==
  [tool |-> t,
   total_usage_days |-> total_usage_days(as, today),
   usage_percentage |-> usage_percentage(tool, as, today),
   rendered |-> total_usage_days(as, today) > 0,
   text |-> usage_percentage(tool, as, today),
   width |-> IF usage_percentage(tool, as, today) < 100
             THEN usage_percentage(tool, as, today) ELSE 100]

\* the assignments of tool t, .eq('tool_id', tool.id)
AssignmentsOf(t) == SelectSeq(assignments, LAMBDA a : a.tool_id = t)

\* a tool registered on day created_at with an optional purchase date, and
\* the assignments made since
Loans(from, today) ==
  {l \in [tool_id : Tools, assigned_at : from..today,
          returned_at : {NoTime} \cup from..today] :
     l.returned_at = NoTime \/ l.assigned_at <= l.returned_at}

InitUsage ==
  /\ now \in 1..MaxDay
  /\ \E created \in 1..now, purchased \in {NoTime} \cup 1..MaxDay :
       /\ tools = [t \in Tools |->
                     [status |-> "available", location_id |-> NULL, person_id |-> NULL,
                      purchase_date |-> purchased, created_at |-> created]]
       /\ \E n \in 0..MaxLoans : assignments \in [1..n -> Loans(created, now)]
  /\ events = <<>>
  /\ requests = <<>>
  /\ view = [user |-> "a1", page |-> "none", rows |-> {}]

\* ToolsManager.loadTools for an administrator: the cards with their usage
LoadUsage ==
  /\ view.page = "none"
  /\ view' = [user |-> "a1", page |-> "usage",
              rows |-> {UsageRow(t, tools[t], AssignmentsOf(t), now) : t \in DOMAIN tools}]
  /\ UNCHANGED <<db, now>>

NextUsage == LoadUsage

SpecUsage == InitUsage /\ [][NextUsage]_vars

\* The rows ordered with the oldest assignment first.
OldestFirst(as) ==
  {o \in [DOMAIN as -> DOMAIN as] :
     /\ \A i, j \in DOMAIN as : i # j => o[i] # o[j]
     /\ \A i, j \in DOMAIN as : i < j => as[o[i]].assigned_at <= as[o[j]].assigned_at}

\* DamageCostTracker.  The result of .order('assigned_at', {ascending: false}):
\* the rows in an order of non-increasing assigned_at; rows with the same
\* assigned_at come in any order
MostRecentFirst(as) ==
  {o \in [DOMAIN as -> DOMAIN as] :
     /\ \A i, j \in DOMAIN as : i # j => o[i] # o[j]
     /\ \A i, j \in DOMAIN as : i < j => as[o[i]].assigned_at >= as[o[j]].assigned_at}

\* assignments?.find(a => a.tool_id === tool.id) on the ordered rows; 0 when
\* the tool has no assignment
find(o, as, t) ==
  LET hits == {i \in DOMAIN as : as[o[i]].tool_id = t}
  IN  IF hits = {} THEN 0
      ELSE o[CHOOSE i \in hits : \A j \in hits : i <= j]

\* the update of personMap / locationMap for one tool
addCost(map, key, price) ==
  IF key \in DOMAIN map
  THEN [map EXCEPT ![key] = [total |-> @.total + price, count |-> @.count + 1]]
  ELSE [k \in DOMAIN map \cup {key} |->
          IF k = key THEN [total |-> price, count |-> 1] ELSE map[k]]

\* damagedTools.forEach over the tools in todo, starting from the maps acc
RECURSIVE forEachDamaged(_, _, _, _, _)
forEachDamaged(todo, tl, as, o, acc) ==
  IF todo = {} THEN acc
  ELSE LET t == CHOOSE x \in todo : TRUE
           price == tl[t].purchase_price
           a == find(o, as, t)
           byPerson == IF a # 0 /\ as[a].person_id # NULL
                       THEN addCost(acc.person, as[a].person_id, price)
                       ELSE acc.person
           byLocation == IF a # 0 /\ as[a].location_id # NULL
                         THEN addCost(acc.location, as[a].location_id, price)
                         ELSE acc.location
       IN  forEachDamaged(todo \ {t}, tl, as, o,
                          [person |-> byPerson, location |-> byLocation])

\* .in('status', ['damaged', 'lost'])
damagedTools(tl) == {t \in DOMAIN tl : tl[t].status \in {"damaged", "lost"}}

\* two tools with their purchase prices and the custody targets of the
\* assignment form; a tool without purchase price counts as 0
\* (tool.purchase_price || 0)
Fleet == {"t1", "t2"}

Charges ==
  [tool_id : Fleet, assigned_at : 1..MaxStamp,
   person_id : People, location_id : {NULL}]
  \cup [tool_id : Fleet, assigned_at : 1..MaxStamp,
        person_id : {NULL}, location_id : Locations]

InitDamage ==
  /\ \E s \in [Fleet -> {"available", "damaged", "lost"}], p2 \in {0, 2} :
       tools = [t \in Fleet |->
                  [status |-> s[t], location_id |-> NULL, person_id |-> NULL,
                   purchase_price |-> IF t = "t1" THEN 1 ELSE p2]]
  /\ \E n \in 0..MaxCharges : assignments \in [1..n -> Charges]
  /\ events = <<>>
  /\ requests = <<>>
  /\ now = MaxStamp
  /\ view = [user |-> "a1", page |-> "none", rows |-> {}]

\* DamageCostTracker.loadDamageCosts: costsByPerson and costsByLocation
loadDamageCosts ==
  /\ view.page = "none"
  /\ \E o \in MostRecentFirst(assignments) :
       view' = [user |-> "a1", page |-> "damage",
                rows |-> forEachDamaged(damagedTools(tools), tools, assignments, o,
                                        [person |-> <<>>, location |-> <<>>])]
  /\ UNCHANGED <<db, now>>

NextDamage == loadDamageCosts

SpecDamage == InitDamage /\ [][NextDamage]_vars

\* ----------------------------------------------------------------- claims
\* C1: in every reachable state a tool's status is in_use if and only if the
\* ledger holds an assignment of that tool whose return_status is active or
\* pending_return.
C1_InUseIffCustody ==
  \A t \in Tools :
    tools[t].status = "in_use" <=>
      \E i \in DOMAIN assignments :
        /\ assignments[i].tool_id = t
        /\ assignments[i].return_status \in {"active", "pending_return"}

\* C2: in every reachable state at most one assignment of a tool has
\* returned_at = null, also when the form was loaded before another
\* administrator's submit.
C2_OneOpenAssignment ==
  \A t \in Tools : Cardinality(OpenAssignments(assignments, t)) <= 1

C5_Atomic ==
  [][/\ Len(assignments') > Len(assignments) =>
          /\ tools'[assignments'[Len(assignments')].tool_id].status = "in_use"
          /\ Len(events') = Len(events) + 1
     /\ \A i \in DOMAIN assignments :
          /\ assignments[i].return_status # "returned"
          /\ assignments'[i].return_status = "returned"
          => tools'[assignments[i].tool_id].status # "in_use"]_vars

\* C6: createAssignment inserts nothing for a tool whose status is not
\* available when the form is submitted.
C6_ToolUnavailable ==
  [][\A i \in DOMAIN assignments' :
       i \notin DOMAIN assignments =>
         tools[assignments'[i].tool_id].status = "available"]_vars

\* C7: after a successful createAssignment the new assignment is active with
\* returned_at null and carries the target, the tool is in_use, and the
\* tool's own person and location are those of the target.
C7_CreateAssignmentEffect ==
  [][\A c \in Clients, t \in Tools, g \in Targets :
       createAssignment(c.user, c.stale, t, g, "none") =>
         LET a == assignments'[Len(assignments')] IN
         /\ Len(assignments') = Len(assignments) + 1
         /\ a.tool_id = t
         /\ a.return_status = "active"
         /\ a.returned_at = NoTime
         /\ a.person_id = g.person_id
         /\ a.location_id = g.location_id
         /\ a.assigned_to = g.assigned_to
         /\ tools'[t].status = "in_use"
         /\ tools'[t].person_id = g.person_id
         /\ tools'[t].location_id = g.location_id]_vars

\* C8: a successful createAssignment and a successful administrator-direct
\* return each append exactly one event of the tool whose old_status and
\* new_status are the tool's status before and after the call and whose
\* to_location and to_person are the custody after it (no location when the
\* tool is returned as lost).
C8_EventPerLedgerChange ==
  [][/\ \A c \in Clients, t \in Tools, g \in Targets :
          createAssignment(c.user, c.stale, t, g, "none") =>
            /\ Len(events') = Len(events) + 1
            /\ LET e == events'[Len(events')] IN
               /\ e.tool_id = t
               /\ e.old_status = tools[t].status
               /\ e.new_status = tools'[t].status
               /\ e.to_location_id = g.location_id
               /\ e.to_person_id = g.person_id
     /\ \A c \in Clients, r \in RowsOn({"active"}), in \in ReturnInputs :
          adminReturn(c.user, c.stale, r, in, "none") =>
            /\ Len(events') = Len(events) + 1
            /\ LET e == events'[Len(events')] IN
               /\ e.tool_id = r.tool
               /\ e.old_status = tools[r.tool].status
               /\ e.new_status = tools'[r.tool].status
               /\ e.to_location_id = assignments'[r.id].return_location_id
               /\ e.to_person_id = NULL]_vars

C10_EventPerRegistryChange ==
  [][(\/ \E c \in Clients, t \in Tools :
           \/ handleReturnTool(c.user, c.stale, t)
           \/ returnToService(c.user, c.stale, t)
      \/ \E c \in Clients, r \in RowsOn({"tools"}) :
           \/ \E s \in Statuses, g \in FormCustody(r) : editTool(c.user, c.stale, r, s, g)
           \/ \E w \in BaseWarehouses : assignToWarehouse(c.user, c.stale, r, w)
      \/ \E c \in Clients, r \in RowsOn({"requests"}) :
           updateRequestStatus(c.user, c.stale, r, "fulfilled", "none"))
     /\ tools' # tools
     => /\ Len(events') = Len(events) + 1
        /\ events'[Len(events')].event_type \in {"status_changed", "moved"}]_vars

C13_ToolMovesToReturnLocation ==
  [][\A c \in Clients :
       /\ \A r \in RowsOn({"active"}), in \in ReturnInputs :
            adminReturn(c.user, c.stale, r, in, "none") =>
              tools'[r.tool].location_id = assignments'[r.id].return_location_id
       /\ \A r \in RowsOn({"pending"}) :
            approveReturn(c.user, c.stale, r, "none") =>
              tools'[r.tool].location_id = assignments'[r.id].return_location_id]_vars

C18_LostHasNoLocation ==
  \A i \in DOMAIN assignments :
    assignments[i].return_condition = "lost" =>
      assignments[i].return_location_id = NULL

\* An administrator reported the tool lost with warehouse W selected in the
\* dialog: the event carries W, the assignment carries no return location.
C18_Witness ==
  \E i \in DOMAIN assignments, e \in DOMAIN events :
    /\ assignments[i].return_status = "returned"
    /\ assignments[i].return_condition = "lost"
    /\ assignments[i].return_location_id = NULL
    /\ events[e].tool_id = assignments[i].tool_id
    /\ events[e].event_type = "returned"
    /\ events[e].new_status = "lost"
    /\ events[e].to_location_id = "W"

C20_EventsPersist ==
  [][\A i \in DOMAIN events :
       i \in DOMAIN events' /\ events'[i] = events[i]]_vars

\* C21: return-to-service changes a tool's status to available only if the
\* tool's status at the time of the call is maintenance; invoked on a tool
\* that is no longer in maintenance it changes nothing.
C21_ReturnToServiceGuarded ==
  [][\A c \in Clients, t \in Tools :
       returnToService(c.user, c.stale, t) =>
         IF tools[t].status = "maintenance"
         THEN tools'[t] = [tools[t] EXCEPT !.status = "available"]
         ELSE tools' = tools]_vars

\* C22: a direct status change of a tool is refused and changes nothing when
\* the new status is incompatible with the tool's assignments: a status other
\* than in_use while an assignment with return_status active or
\* pending_return exists, or in_use while none exists.
C22_StatusChangeChecked ==
  [][\A c \in Clients, r \in RowsOn({"tools"}), s \in Statuses :
       \A g \in FormCustody(r) :
         editTool(c.user, c.stale, r, s, g) =>
           LET held == \E i \in DOMAIN assignments :
                         /\ assignments[i].tool_id = r.tool
                         /\ assignments[i].return_status \in {"active", "pending_return"}
           IN  \/ (s = "in_use") <=> held
               \/ tools' = tools]_vars

\* C23: in every reachable state no tool has both its location reference and
\* its person reference non-null.
C23_OneCustodyReference ==
  \A t \in DOMAIN tools :
    tools[t].location_id = NULL \/ tools[t].person_id = NULL

\* C24: a tool request's status changes only from pending to approved, from
\* pending to rejected and from approved to fulfilled; rejected and fulfilled
\* are terminal, and a cancel removes a request only while it is pending.
\* This holds for actions issued from a request list loaded before another
\* actor changed the request.
C24_RequestStatusEdges ==
  [][\A i \in DOMAIN requests :
       requests'[i].status # requests[i].status =>
         <<requests[i].status, requests'[i].status>> \in
           {<<"pending", "approved">>, <<"pending", "rejected">>,
            <<"approved", "fulfilled">>, <<"pending", "deleted">>}]_vars

\* C25: fulfil on an approved request that references an existing tool sets
\* that tool's location to the request's destination and then sets the
\* request's status to fulfilled, without creating or modifying an assignment
\* and without changing the tool's status; fulfil on a new-tool request
\* changes only the request's status and creates or changes no tool.
C25_FulfilFrame ==
  [][\A c \in Clients, r \in RowsOn({"requests"}) :
       (updateRequestStatus(c.user, c.stale, r, "fulfilled", "none")
          /\ requests[r.id].status = "approved") =>
         LET q == requests[r.id] IN
         /\ requests' = [requests EXCEPT ![r.id].status = "fulfilled"]
         /\ assignments' = assignments
         /\ DOMAIN tools' = DOMAIN tools
         /\ IF q.tool_id = NULL
            THEN tools' = tools
            ELSE \A t \in DOMAIN tools :
                   tools'[t] = IF t = q.tool_id
                               THEN [tools[t] EXCEPT !.location_id = q.destination_location_id]
                               ELSE tools[t]]_vars

\* A fulfilled request for an existing tool, the tool standing at the
\* request's destination with no assignment in the ledger.
C25_Witness ==
  \E i \in DOMAIN requests :
    /\ requests[i].status = "fulfilled"
    /\ requests[i].request_type = "existing"
    /\ requests[i].tool_id \in DOMAIN tools
    /\ tools[requests[i].tool_id].location_id = requests[i].destination_location_id
    /\ tools[requests[i].tool_id].status = "maintenance"
    /\ assignments = <<>>

\* C26: the usage percentage of a tool is the sum of the durations of its
\* assignments (an open one counted up to now) divided by the time since
\* purchase (since creation without a purchase date), times 100, rounded to
\* the nearest integer, and the value shown is always within 0..100.
C26_UsageShownInRange ==
  view.page = "usage" =>
    \A row \in view.rows :
      /\ LET used == total_usage_days(AssignmentsOf(row.tool), now)
             owned == totalDaysInInventory(tools[row.tool], now)
         IN  owned > 0 =>
               /\ 2 * row.usage_percentage * owned <= 200 * used + owned
               /\ 2 * row.usage_percentage * owned > 200 * used - owned
      /\ row.rendered => row.text \in 0..100 /\ row.width \in 0..100

C29_ActiveHasNoReturnData ==
  \A i \in DOMAIN assignments :
    assignments[i].return_status = "active" =>
      /\ assignments[i].return_condition = NULL
      /\ assignments[i].return_notes = NULL
      /\ assignments[i].return_location_id = NULL
      /\ assignments[i].return_requested_at = NoTime

====
